---- MODULE Spec2Model ----
(***************************************************************************)
(* PostScheduler of src/src/server.ts: the posts table, the post_analytics *)
(* table, the minute cron tick, the publish flow with its retry timers and *)
(* the four EventEmitter listeners.                                        *)
(*                                                                         *)
(* Time is counted in minutes, the period of the dispatch cron job: `now`  *)
(* is the last minute boundary that has passed.  Every statement on the    *)
(* store succeeds, except the SELECT of getPostById in the catch block of  *)
(* publishPost, whose failure decides between post:retrying and            *)
(* post:failed.                                                            *)
(***************************************************************************)
EXTENDS Integers, Sequences, FiniteSets, Bags, TLC

\* ---- bounds of the model ----
MaxPosts == 1      \* posts ever scheduled in one behaviour
MaxTime  == 6      \* minute boundaries that pass in one behaviour
MaxCalls == 4      \* twitter calls started in one behaviour
FlowCalls == 2     \* twitter calls started in one behaviour of SpecFlow
MaxRows  == 3      \* rows of the posts table found at start (SpecStore)

\* ---- program constants ----
MaxRetries == 3                       \* retry_count < 3
RetryDelay == 5                       \* setTimeout(..., 5 * 60 * 1000), in minutes
RetentionMinutes == 30 * 24 * 60      \* setDate(getDate() - 30), in minutes
IsoWidth == 6                         \* digits of the model's fixed-width timestamp
StartTime == RetentionMinutes         \* the instant at which the process starts

Platforms == {"twitter", "linkedin", "instagram"}

\* The content of a well-formed request.
Text == "Bora codar!"
NULL == "NULL"
UnknownError == "Erro desconhecido"
AdapterErrors == {"", "Too Many Requests"}

Ids == 1 .. MaxPosts

VARIABLES
  db,              \* this.db is set (initDatabase has finished)
  now,             \* the clock, in minutes
  posts,           \* table posts: id -> row, for the ids that are stored
  post_analytics,  \* table post_analytics, grouped by post_id, in insertion order
  nextId,          \* the next fresh post id
  tweeting,        \* bag of posts whose twitter call is in flight
  timers,          \* bag of armed retry timers [post, fireAt]
  calls,           \* per post id, the outcomes of its finished twitter calls
  due,             \* the ids the due-post query returned, when the last step was a tick
  ret,             \* what the public API call returned, when the last step was one
  caught           \* the store errors the listeners of the last step caught and logged

vars == <<db, now, posts, post_analytics, nextId, tweeting, timers, calls, due, ret, caught>>

\* ---------------------------------------------------------------------------
\* Date.prototype.toISOString and SQLite's TEXT comparison
\* ---------------------------------------------------------------------------

\* toISOString: a fixed-width, most-significant-field-first text of the instant.
RECURSIVE Digits(_, _)
Digits(n, w) == IF w = 0 THEN <<>> ELSE Append(Digits(n \div 10, w - 1), n % 10)

ToISOString(t) == Digits(t, IsoWidth)

\* SQLite compares two TEXT values byte by byte, left to right.
RECURSIVE TextLess(_, _)
TextLess(a, b) ==
  IF a = <<>> THEN b # <<>>
  ELSE IF b = <<>> THEN FALSE
  ELSE IF Head(a) # Head(b) THEN Head(a) < Head(b)
  ELSE TextLess(Tail(a), Tail(b))

TextLeq(a, b) == a = b \/ TextLess(a, b)

\* ---------------------------------------------------------------------------
\* The store
\* ---------------------------------------------------------------------------

\* INSERT INTO posts (...) of schedulePost; the other columns take their defaults.
NewRow(content, platform, scheduledFor, createdAt) ==
  [ content       |-> content,
    status        |-> "pending",
    scheduled_for |-> scheduledFor,
    created_at    |-> createdAt,
    platform      |-> platform,
    published_at  |-> <<>>,
    error_message |-> NULL,
    retry_count   |-> 0 ]

Event(type, attempt) == [event_type |-> type, attempt |-> attempt]

\* logAnalytics: one INSERT INTO post_analytics.
LogAnalytics(a, id, type, attempt) ==
  [a EXCEPT ![id] = Append(@, Event(type, attempt))]

\* The retry_count column after an UPDATE that sets `status`.
RetryCountUpdate(status, rc) == IF status = "failed" THEN rc + 1 ELSE rc

\* updatePostStatus: UPDATE posts SET ... WHERE id = ?.  An optional argument
\* is the empty set when it is undefined and {value} when it is given.
UpdatePostStatus(p, id, status, errorMessage, publishedAt) ==
  IF id \notin DOMAIN p THEN p
  ELSE [p EXCEPT ![id] =
         [@ EXCEPT
            !.status        = status,
            !.error_message = IF errorMessage = {} THEN @
                              ELSE CHOOSE m \in errorMessage : TRUE,
            !.published_at  = IF publishedAt = {} THEN @
                              ELSE CHOOSE t \in publishedAt : TRUE,
            !.retry_count   = RetryCountUpdate(status, @)]]

\* handleFailedPost
HandleFailedPost(p, id, errorMessage) ==
  UpdatePostStatus(p, id, "failed", {errorMessage}, {})

\* getPostById; `readOk` is whether the SELECT succeeds (the catch returns
\* undefined).  The result is {} for undefined and {row} otherwise.
GetPostById(p, id, readOk) ==
  IF readOk /\ id \in DOMAIN p THEN {p[id]} ELSE {}

\* ---------------------------------------------------------------------------
\* The listeners of setupEventListeners, on a store s = [posts, analytics]
\* ---------------------------------------------------------------------------

\* A listener's store statements may fail: f.update is whether the UPDATE of
\* updatePostStatus succeeds and f.log whether the INSERT of logAnalytics does.
StoreFaults == [update : BOOLEAN, log : BOOLEAN]
NoFault == [update |-> TRUE, log |-> TRUE]

UpdateError == "Erro ao atualizar status do post:"
AnalyticsError == "Erro ao salvar analytics:"

\* try { await this.db.run(...) } catch (error) { console.error(...) }: the
\* table after the statement, or the table as it was when the statement fails.
Catch(ok, table, result) == IF ok THEN result ELSE table

\* What console.error prints for the statements a listener ran.
Caught(f, updates, logs) ==
  (IF updates /\ ~f.update THEN {UpdateError} ELSE {})
    \cup (IF logs /\ ~f.log THEN {AnalyticsError} ELSE {})

OnScheduled(s, id, f) ==
  [s EXCEPT !.analytics = Catch(f.log, @, LogAnalytics(@, id, "scheduled", 0))]

\* The published listener if a failing UPDATE ended it.
OnPublished_Abort(s, id, t, f) ==
  IF ~f.update THEN s
  ELSE [ posts     |-> UpdatePostStatus(s.posts, id, "posted", {NULL}, {<<t>>}),
         analytics |-> Catch(f.log, s.analytics,
                             LogAnalytics(s.analytics, id, "published", 0)) ]

OnPublished(s, id, t, f) ==
  [ posts     |-> Catch(f.update, s.posts,
                        UpdatePostStatus(s.posts, id, "posted", {NULL}, {<<t>>})),
    analytics |-> Catch(f.log, s.analytics,
                        LogAnalytics(s.analytics, id, "published", 0)) ]

ErrorText(message) == IF message = "" THEN UnknownError ELSE message

OnFailed(s, id, message, f) ==
  [ posts     |-> Catch(f.update, s.posts,
                        HandleFailedPost(s.posts, id, ErrorText(message))),
    analytics |-> Catch(f.log, s.analytics,
                        LogAnalytics(s.analytics, id, "failed", 0)) ]

\* The retrying listener if it recorded the failure on the post as well.
OnRetrying_Failing(s, id, attempt, f) ==
  [ posts     |-> HandleFailedPost(s.posts, id, UnknownError),
    analytics |-> Catch(f.log, s.analytics,
                        LogAnalytics(s.analytics, id, "retry", attempt)) ]

OnRetrying(s, id, attempt, f) ==
  [s EXCEPT !.analytics = Catch(f.log, @, LogAnalytics(@, id, "retry", attempt))]

\* ---------------------------------------------------------------------------
\* The due-post query of the dispatch tick
\* ---------------------------------------------------------------------------

\* The WHERE clause without its retry_count condition.
IsDue_NoRetryLimit(row, t) ==
  /\ row.status = "pending"
  /\ TextLeq(ToISOString(row.scheduled_for), ToISOString(t))

\* WHERE status = 'pending' AND scheduled_for <= ? AND retry_count < 3
IsDue(row, t) ==
  /\ row.status = "pending"
  /\ TextLeq(ToISOString(row.scheduled_for), ToISOString(t))
  /\ row.retry_count < MaxRetries

\* ORDER BY scheduled_for ASC: every order of the ids in S that SQLite may
\* return (rows with equal scheduled_for come in an unspecified order).
RECURSIVE OrderByScheduledFor(_, _)
OrderByScheduledFor(p, S) ==
  IF S = {} THEN {<<>>}
  ELSE LET first == {i \in S : \A j \in S :
                       TextLeq(ToISOString(p[i].scheduled_for),
                               ToISOString(p[j].scheduled_for))}
       IN UNION {{<<i>> \o r : r \in OrderByScheduledFor(p, S \ {i})} : i \in first}

DueQuery(p, t) == OrderByScheduledFor(p, {i \in DOMAIN p : IsDue(p[i], t)})

\* ---------------------------------------------------------------------------
\* The publish flow
\* ---------------------------------------------------------------------------

PostCopy(id, row) == [id |-> id, platform |-> row.platform]

InFlight(id, tw) ==
  CopiesIn([id |-> id, platform |-> "twitter"], tw)

Armed(id, tm) ==
  BagCardinality([t \in {x \in DOMAIN tm : x.post.id = id} |-> tm[t]])

\* The number of twitter calls started for a post so far.
Invocations(id) == Len(calls[id]) + InFlight(id, tweeting)

RECURSIVE SumLen(_, _)
SumLen(c, S) ==
  IF S = {} THEN 0
  ELSE LET i == CHOOSE j \in S : TRUE IN Len(c[i]) + SumLen(c, S \ {i})

\* The number of twitter calls started so far, and the room left under MaxCalls.
TotalCalls == SumLen(calls, DOMAIN calls) + BagCardinality(tweeting)

Twitter(q) == {k \in 1 .. Len(q) : posts[q[k]].platform = "twitter"}

\* publishPost if a platform without adapter emitted nothing.
StartPublish_AdapterOnly(m, post, t) ==
  IF post.platform = "twitter"
  THEN [m EXCEPT !.tweeting = @ (+) SetToBag({post})]
  ELSE m

\* publishPost if every platform went through the twitter adapter.
StartPublish_AlwaysCall(m, post, t) ==
  [m EXCEPT !.tweeting = @ (+) SetToBag({post})]

\* publishPost up to its first await, on m = [posts, analytics, tweeting]:
\* the twitter call is started, or (no adapter) post:published is emitted.
StartPublish(m, post, t) ==
  IF post.platform = "twitter"
  THEN [m EXCEPT !.tweeting = @ (+) SetToBag({post})]
  ELSE LET s == OnPublished([posts |-> m.posts, analytics |-> m.analytics], post.id, t, NoFault)
       IN [posts |-> s.posts, analytics |-> s.analytics, tweeting |-> m.tweeting]

\* for (const dbPost of posts) { ... this.publishPost(post) }
RECURSIVE DispatchAll(_, _, _)
DispatchAll(m, q, t) ==
  IF q = <<>> THEN m
  ELSE DispatchAll(StartPublish(m, PostCopy(Head(q), m.posts[Head(q)]), t), Tail(q), t)

Machine == [posts |-> posts, analytics |-> post_analytics, tweeting |-> tweeting]

\* ---------------------------------------------------------------------------
\* Actions
\* ---------------------------------------------------------------------------

NoCall == [op |-> "none", id |-> 0, ok |-> FALSE]

Init ==
  /\ db = FALSE
  /\ now = StartTime
  /\ posts = <<>>
  /\ post_analytics = [i \in Ids |-> <<>>]
  /\ nextId = 1
  /\ tweeting = EmptyBag
  /\ timers = EmptyBag
  /\ calls = [i \in Ids |-> <<>>]
  /\ caught = {}
  /\ due = <<>>
  /\ ret = NoCall

\* initDatabase: this.db = await open(...)
InitDatabase ==
  /\ ~db
  /\ db' = TRUE
  /\ caught' = {}
  /\ due' = <<>> /\ ret' = NoCall
  /\ UNCHANGED <<now, posts, post_analytics, nextId, tweeting, timers, calls>>

\* schedulePost if it emitted post:scheduled before awaiting the INSERT.
SchedulePost_EmitFirst(content, platform, scheduledFor, insertOk, f) ==
  /\ nextId <= MaxPosts
  /\ IF ~db
     THEN /\ ret' = [op |-> "schedulePost", id |-> 0, ok |-> FALSE]
          /\ caught' = {}
          /\ UNCHANGED <<posts, post_analytics, nextId>>
     ELSE LET s == OnScheduled([posts |-> posts, analytics |-> post_analytics], nextId, f)
          IN /\ post_analytics' = s.analytics
             /\ caught' = Caught(f, FALSE, TRUE)
             /\ IF insertOk
                THEN /\ posts' = posts @@ (nextId :> NewRow(content, platform, scheduledFor, now))
                     /\ nextId' = nextId + 1
                     /\ ret' = [op |-> "schedulePost", id |-> nextId, ok |-> TRUE]
                ELSE /\ ret' = [op |-> "schedulePost", id |-> 0, ok |-> FALSE]
                     /\ UNCHANGED <<posts, nextId>>
  /\ due' = <<>>
  /\ UNCHANGED <<db, now, tweeting, timers, calls>>

\* schedulePost(postData); scheduledFor is the instant of postData.scheduledFor
\* (new Date() when it is absent).  `insertOk` is whether the INSERT succeeds;
\* the promise rejects when it does not, and when this.db is not set.
SchedulePost(content, platform, scheduledFor, insertOk, f) ==
  /\ nextId <= MaxPosts
  /\ IF ~db \/ ~insertOk
     THEN /\ ret' = [op |-> "schedulePost", id |-> 0, ok |-> FALSE]
          /\ caught' = {}
          /\ UNCHANGED <<posts, post_analytics, nextId>>
     ELSE LET s == OnScheduled(
                     [ posts     |-> posts @@ (nextId :> NewRow(content, platform, scheduledFor, now)),
                       analytics |-> post_analytics ], nextId, f)
          IN /\ posts' = s.posts
             /\ post_analytics' = s.analytics
             /\ nextId' = nextId + 1
             /\ ret' = [op |-> "schedulePost", id |-> nextId, ok |-> TRUE]
             /\ caught' = Caught(f, FALSE, TRUE)
  /\ due' = <<>>
  /\ UNCHANGED <<db, now, tweeting, timers, calls>>

\* The instants a request may ask for: the past, now, the future.
ScheduleChoices == {0, now, now + 2}

\* The DELETE without its status condition.
DeleteWhere_AnyStatus(p, id) ==
  {i \in DOMAIN p : i = id}

\* DELETE FROM posts WHERE id = ? AND status = "pending"
DeleteWhere(p, id) ==
  {i \in DOMAIN p : i = id /\ p[i].status = "pending"}

\* deleteScheduledPost(id)
DeleteScheduledPost(id) ==
  /\ IF ~db
     THEN /\ ret' = [op |-> "deleteScheduledPost", id |-> id, ok |-> FALSE]
          /\ UNCHANGED posts
     ELSE LET gone == DeleteWhere(posts, id)
          IN /\ posts' = [i \in DOMAIN posts \ gone |-> posts[i]]
             /\ ret' = [op |-> "deleteScheduledPost", id |-> id,
                        ok |-> Cardinality(gone) > 0]
  /\ caught' = {}
  /\ due' = <<>>
  /\ UNCHANGED <<db, now, post_analytics, nextId, tweeting, timers, calls>>

\* The cleanup DELETE without its status condition.
CleanupWhere_AnyStatus(p, thirtyDaysAgo) ==
  {i \in DOMAIN p :
     TextLess(ToISOString(p[i].created_at), ToISOString(thirtyDaysAgo))}

\* WHERE status IN ('posted', 'failed') AND created_at < ?
CleanupWhere(p, thirtyDaysAgo) ==
  {i \in DOMAIN p :
     /\ p[i].status \in {"posted", "failed"}
     /\ TextLess(ToISOString(p[i].created_at), ToISOString(thirtyDaysAgo))}

\* cleanupOldPosts, the daily cron job
CleanupOldPosts ==
  /\ db
  /\ LET gone == CleanupWhere(posts, now - RetentionMinutes)
     IN /\ posts' = [i \in DOMAIN posts \ gone |-> posts[i]]
        /\ ret' = [op |-> "cleanupOldPosts", id |-> 0, ok |-> Cardinality(gone) > 0]
  /\ caught' = {}
  /\ due' = <<>>
  /\ UNCHANGED <<db, now, post_analytics, nextId, tweeting, timers, calls>>

\* A retry timer fires in the minute in which it falls due, so the next
\* minute boundary passes only when no armed timer is due.
NoTimerDue == \A t \in BagToSet(timers) : t.fireAt > now

\* The minute cron job of startScheduler: a minute boundary passes, the due
\* posts are read and publishPost is started for each of them.  The database
\* is opened within the first minute, so no tick finds this.db unset.
Tick ==
  /\ now < StartTime + MaxTime
  /\ NoTimerDue
  /\ db
  /\ now' = now + 1
  /\ \E q \in DueQuery(posts, now') :
            /\ TotalCalls + Cardinality(Twitter(q)) <= MaxCalls
            /\ LET m == DispatchAll(Machine, q, now')
               IN /\ posts' = m.posts
                  /\ post_analytics' = m.analytics
                  /\ tweeting' = m.tweeting
            /\ due' = q
  /\ caught' = {}
  /\ ret' = NoCall
  /\ UNCHANGED <<db, nextId, timers, calls>>

\* The twitter call of publishPost(post) resolves: post:published is emitted.
TweetOk(post, f) ==
  /\ BagIn(post, tweeting)
  /\ tweeting' = tweeting (-) SetToBag({post})
  /\ calls' = [calls EXCEPT ![post.id] = Append(@, "ok")]
  /\ LET s == OnPublished([posts |-> posts, analytics |-> post_analytics], post.id, now, f)
     IN /\ posts' = s.posts
        /\ post_analytics' = s.analytics
  /\ caught' = Caught(f, TRUE, TRUE)
  /\ due' = <<>> /\ ret' = NoCall
  /\ UNCHANGED <<db, now, nextId, timers>>

\* The decision of publishPost's catch block on the row read back.
WillRetry(currentPost) ==
  /\ currentPost # {}
  /\ \A row \in currentPost : row.retry_count < MaxRetries

\* The twitter call of publishPost(post) rejects with an error carrying
\* `message`: the catch block reads the post back and emits post:retrying
\* (arming the timer) or post:failed.
TweetFail(post, message, readOk, f) ==
  /\ BagIn(post, tweeting)
  /\ tweeting' = tweeting (-) SetToBag({post})
  /\ calls' = [calls EXCEPT ![post.id] = Append(@, "fail")]
  /\ LET currentPost == GetPostById(posts, post.id, readOk)
         s0 == [posts |-> posts, analytics |-> post_analytics]
     IN IF WillRetry(currentPost)
        THEN LET row == CHOOSE r \in currentPost : TRUE
                 s   == OnRetrying(s0, post.id, row.retry_count + 1, f)
             IN /\ posts' = s.posts
                /\ post_analytics' = s.analytics
                /\ timers' = timers (+) SetToBag({[post |-> post, fireAt |-> now + RetryDelay]})
                /\ caught' = Caught(f, FALSE, TRUE)
        ELSE LET s == OnFailed(s0, post.id, message, f)
             IN /\ posts' = s.posts
                /\ post_analytics' = s.analytics
                /\ timers' = timers
                /\ caught' = Caught(f, TRUE, TRUE)
  /\ due' = <<>> /\ ret' = NoCall
  /\ UNCHANGED <<db, now, nextId>>

\* setTimeout(() => this.publishPost(post), ...) falls due.
TimerFires(t) ==
  /\ BagIn(t, timers)
  /\ t.fireAt <= now
  /\ t.post.platform = "twitter" => TotalCalls < MaxCalls
  /\ timers' = timers (-) SetToBag({t})
  /\ LET m == StartPublish(Machine, t.post, now)
     IN /\ posts' = m.posts
        /\ post_analytics' = m.analytics
        /\ tweeting' = m.tweeting
  /\ caught' = {}
  /\ due' = <<>> /\ ret' = NoCall
  /\ UNCHANGED <<db, now, nextId, calls>>

Next ==
  \/ InitDatabase
  \/ \E pf \in Platforms, t \in ScheduleChoices : SchedulePost(Text, pf, t, TRUE, NoFault)
  \/ \E id \in Ids : DeleteScheduledPost(id)
  \/ CleanupOldPosts
  \/ Tick
  \/ \E post \in BagToSet(tweeting) : TweetOk(post, NoFault)
  \/ \E post \in BagToSet(tweeting), msg \in AdapterErrors, readOk \in BOOLEAN :
       TweetFail(post, msg, readOk, NoFault)
  \/ \E t \in BagToSet(timers) : TimerFires(t)

Spec == Init /\ [][Next]_vars

\* ---------------------------------------------------------------------------
\* SpecStore: the handlers that are one statement on the posts table (the due
\* query of the tick, deleteScheduledPost, cleanupOldPosts), started on a
\* posts table as the database file may hold it when the process starts.
\* ---------------------------------------------------------------------------

StoreIds == 1 .. MaxRows

PendingRows ==
  { [NewRow(Text, "twitter", sf, 0) EXCEPT !.retry_count = rc] :
      sf \in {0, StartTime + 2, StartTime + 3}, rc \in {0, MaxRetries} }

PostedRows ==
  { [NewRow(Text, "twitter", 0, ca) EXCEPT !.status = "posted", !.published_at = <<ca>>] :
      ca \in {0, 1, StartTime} }

FailedRows ==
  { [NewRow(Text, "twitter", 0, ca) EXCEPT !.status = "failed", !.error_message = UnknownError,
                                     !.retry_count = 1] :
      ca \in {0, 1, StartTime} }

StoredRows == PendingRows \cup PostedRows \cup FailedRows

InitStore ==
  /\ db = TRUE
  /\ now = StartTime + 1
  /\ \E S \in SUBSET StoreIds : posts \in [S -> StoredRows]
  /\ post_analytics = [i \in StoreIds |-> <<>>]
  /\ nextId = MaxRows + 1
  /\ tweeting = EmptyBag
  /\ timers = EmptyBag
  /\ calls = [i \in StoreIds |-> <<>>]
  /\ caught = {}
  /\ due = <<>>
  /\ ret = NoCall

NextStore ==
  \/ \E id \in StoreIds : DeleteScheduledPost(id)
  \/ CleanupOldPosts
  \/ Tick

SpecStore == InitStore /\ [][NextStore]_vars

\* ---------------------------------------------------------------------------
\* SpecFlow: scheduling, deleting and publishing over the behaviours in which
\* at most FlowCalls twitter calls are started.  The eviction job is left out:
\* no post of such a behaviour is older than the retention window.
\* ---------------------------------------------------------------------------

NextFlow ==
  \/ InitDatabase
  \/ \E pf \in Platforms, t \in ScheduleChoices : SchedulePost(Text, pf, t, TRUE, NoFault)
  \/ \E id \in Ids : DeleteScheduledPost(id)
  \/ Tick /\ TotalCalls' <= FlowCalls
  \/ \E post \in BagToSet(tweeting) : TweetOk(post, NoFault)
  \/ \E post \in BagToSet(tweeting), msg \in AdapterErrors, readOk \in BOOLEAN :
       TweetFail(post, msg, readOk, NoFault)
  \/ \E t \in BagToSet(timers) : TimerFires(t) /\ TotalCalls' <= FlowCalls

SpecFlow == Init /\ [][NextFlow]_vars

\* ---------------------------------------------------------------------------
\* SpecFault: twitter posts scheduled for now, over the behaviours with at
\* most FlowCalls twitter calls, where the INSERT of schedulePost and the
\* store statements of the listeners may fail (the error of a failing call
\* has no message).
\* ---------------------------------------------------------------------------

NextFault ==
  \/ InitDatabase
  \/ \E insertOk \in BOOLEAN, f \in StoreFaults :
       SchedulePost(Text, "twitter", now, insertOk, f)
  \/ \E id \in Ids : DeleteScheduledPost(id)
  \/ Tick /\ TotalCalls' <= FlowCalls
  \/ \E post \in BagToSet(tweeting), f \in StoreFaults : TweetOk(post, f)
  \/ \E post \in BagToSet(tweeting), readOk \in BOOLEAN, f \in StoreFaults :
       TweetFail(post, "", readOk, f)
  \/ \E t \in BagToSet(timers) : TimerFires(t) /\ TotalCalls' <= FlowCalls

SpecFault == Init /\ [][NextFault]_vars

\* ---------------------------------------------------------------------------
\* SpecApi: the program as its HTTP clients drive it. A request body is not
\* checked against PostRequest at run time, so its content may be the empty
\* string and its platform any text.
\* ---------------------------------------------------------------------------

Contents == {"", Text}
RequestPlatforms == Platforms \cup {"facebook"}

\* What a route handler holds after calling an async method without await.
PromiseOf(value) == [kind |-> "promise", value |-> value]
Undefined == [kind |-> "undefined"]
Boolean(b) == [kind |-> "boolean", value |-> b]

\* The truth value the `!x` test of a route handler takes x for.
ToBoolean(x) ==
  CASE x.kind = "undefined" -> FALSE
    [] x.kind = "boolean"   -> x.value
    [] OTHER                -> TRUE

\* The reply of a route: 404 with success false, or 200 with success true.
Reply(op, id, found) ==
  [op |-> op, id |-> id, ok |-> (IF found THEN 200 ELSE 404) = 200]

\* GET /api/posts/:id
GetPostRoute(id) ==
  /\ LET currentPost == GetPostById(posts, id, db)
         post == PromiseOf(IF currentPost = {} THEN Undefined
                           ELSE CHOOSE r \in currentPost : TRUE)
     IN ret' = Reply("GET /api/posts/:id", id, ToBoolean(post))
  /\ caught' = {}
  /\ due' = <<>>
  /\ UNCHANGED <<db, now, posts, post_analytics, nextId, tweeting, timers, calls>>

\* DELETE /api/posts/:id
DeletePostRoute(id) ==
  /\ LET gone == IF db THEN DeleteWhere(posts, id) ELSE {}
         deleted == PromiseOf(Boolean(Cardinality(gone) > 0))
     IN /\ posts' = [i \in DOMAIN posts \ gone |-> posts[i]]
        /\ ret' = Reply("DELETE /api/posts/:id", id, ToBoolean(deleted))
  /\ caught' = {}
  /\ due' = <<>>
  /\ UNCHANGED <<db, now, post_analytics, nextId, tweeting, timers, calls>>

NextApi ==
  \/ InitDatabase
  \/ \E c \in Contents, pf \in RequestPlatforms, t \in ScheduleChoices :
       SchedulePost(c, pf, t, TRUE, NoFault)
  \/ \E id \in Ids : GetPostRoute(id)
  \/ \E id \in Ids : DeletePostRoute(id)
  \/ CleanupOldPosts
  \/ Tick
  \/ \E post \in BagToSet(tweeting) : TweetOk(post, NoFault)
  \/ \E post \in BagToSet(tweeting), msg \in AdapterErrors, readOk \in BOOLEAN :
       TweetFail(post, msg, readOk, NoFault)
  \/ \E t \in BagToSet(timers) : TimerFires(t)

SpecApi == Init /\ [][NextApi]_vars

\* ---------------------------------------------------------------------------
\* Properties
\* ---------------------------------------------------------------------------

Terminal(row) == row.status \in {"posted", "failed"}

\* The events of a post after its `scheduled` event.
EventsAfterScheduling(id) ==
  SelectSeq(post_analytics[id], LAMBDA e : e.event_type # "scheduled")

AllFail(c) == \A k \in 1 .. Len(c) : c[k] = "fail"

Published(id) ==
  Len(SelectSeq(post_analytics[id], LAMBDA e : e.event_type = "published"))

\* C1: once a stored post is posted or failed, no step starts another twitter
\* call for it (neither a tick nor a retry timer armed earlier).
C1_NoPublishAfterTerminal ==
  [][\A i \in DOMAIN posts :
       Terminal(posts[i]) => Invocations(i)' = Invocations(i)]_vars

\* C2: for every post, at most one publish attempt is in progress or pending
\* (twitter calls in flight plus armed retry timers).
C2_AttemptsSequential ==
  \A i \in DOMAIN calls : InFlight(i, tweeting) + Armed(i, timers) <= 1

\* C3: for every post, the twitter call is started at most 3 times in total.
C3_AtMostThreeAttempts ==
  \A i \in DOMAIN calls : Invocations(i) <= MaxRetries

\* C4: a stored post whose three twitter calls have all failed is failed, with
\* retry count 3, an error message, and the events retry(1), retry(2), failed.
C4_ThreeFailuresEndFailed ==
  \A i \in DOMAIN posts :
     (Len(calls[i]) = MaxRetries /\ AllFail(calls[i])) =>
        /\ posts[i].status = "failed"
        /\ posts[i].retry_count = MaxRetries
        /\ posts[i].error_message # NULL
        /\ EventsAfterScheduling(i) =
             <<Event("retry", 1), Event("retry", 2), Event("failed", 0)>>

\* C5: a stored post whose twitter calls failed twice and then succeeded is
\* posted, with retry count 2 and exactly the events retry(1), retry(2),
\* published.
C5_TwoFailuresThenPosted ==
  \A i \in DOMAIN posts :
     calls[i] = <<"fail", "fail", "ok">> =>
        /\ posts[i].status = "posted"
        /\ posts[i].retry_count = 2
        /\ EventsAfterScheduling(i) =
             <<Event("retry", 1), Event("retry", 2), Event("published", 0)>>

\* C6: from the first successful twitter call of a stored post on, the post is
\* posted, its published time is set and it has exactly one published event.
C6_SuccessPostedOnce ==
  \A i \in DOMAIN posts :
     (\E k \in 1 .. Len(calls[i]) : calls[i][k] = "ok") =>
        /\ posts[i].status = "posted"
        /\ posts[i].published_at # <<>>
        /\ Published(i) = 1

\* q is the answer to the due query on table p at instant t: exactly the
\* pending rows scheduled at or before t with fewer than 3 retries, each once,
\* in ascending order of scheduled time.
DueAnswer(q, p, t) ==
  /\ \A k \in 1 .. Len(q) :
       /\ q[k] \in DOMAIN p
       /\ p[q[k]].status = "pending"
       /\ p[q[k]].scheduled_for <= t
       /\ p[q[k]].retry_count < 3
  /\ \A i \in DOMAIN p :
       (p[i].status = "pending" /\ p[i].scheduled_for <= t /\ p[i].retry_count < 3)
         => \E k \in 1 .. Len(q) : q[k] = i
  /\ \A k, l \in 1 .. Len(q) :
       k < l => /\ q[k] # q[l]
                /\ p[q[k]].scheduled_for <= p[q[l]].scheduled_for

\* C7: the due query of a tick returns exactly the pending posts scheduled at
\* or before now with retry count below 3, in ascending order of scheduled
\* time (never a pending post with retry count >= 3, nor a posted or failed one).
C7_DueQuery ==
  [][now' # now => DueAnswer(due', posts, now')]_vars

\* A tick returned two posts of different scheduled times and left out a
\* pending post that was scheduled in the past but has 3 retries.
C7_Witness ==
  /\ Len(due) >= 2
  /\ \A k \in 1 .. Len(due) : due[k] \in DOMAIN posts
  /\ posts[due[1]].scheduled_for < posts[due[2]].scheduled_for
  /\ \E i \in DOMAIN posts :
       /\ posts[i].status = "pending"
       /\ posts[i].retry_count >= 3
       /\ posts[i].scheduled_for <= now
       /\ \A k \in 1 .. Len(due) : due[k] # i

\* C8: deleteScheduledPost(id) returns false and changes nothing for a posted
\* or failed post and for an unknown id; for a pending post it removes that
\* row only and returns true.
C8_Delete ==
  [][ret'.op = "deleteScheduledPost" =>
       LET id == ret'.id
       IN /\ (id \in DOMAIN posts /\ Terminal(posts[id])) =>
               (~ret'.ok /\ posts' = posts)
          /\ (id \in DOMAIN posts /\ posts[id].status = "pending") =>
               /\ ret'.ok
               /\ DOMAIN posts' = DOMAIN posts \ {id}
               /\ \A j \in DOMAIN posts' : posts'[j] = posts[j]
          /\ id \notin DOMAIN posts =>
               (~ret'.ok /\ posts' = posts)]_vars

\* A pending post was deleted while a posted or failed post is stored.
C8_Witness ==
  /\ ret.op = "deleteScheduledPost"
  /\ ret.ok
  /\ ret.id \notin DOMAIN posts
  /\ \E j \in DOMAIN posts : Terminal(posts[j])

\* C9: the eviction job removes exactly the posted or failed posts created
\* more than 30 days ago and leaves every other row as it is.
C9_Cleanup ==
  [][ret'.op = "cleanupOldPosts" =>
       /\ DOMAIN posts' \subseteq DOMAIN posts
       /\ \A i \in DOMAIN posts :
            IF Terminal(posts[i]) /\ posts[i].created_at < now - RetentionMinutes
            THEN i \notin DOMAIN posts'
            ELSE i \in DOMAIN posts' /\ posts'[i] = posts[i]]_vars

\* The eviction job removed a row and kept a pending post older than the
\* window and a posted or failed post inside the window.
C9_Witness ==
  /\ ret.op = "cleanupOldPosts"
  /\ ret.ok
  /\ \E i \in DOMAIN posts :
       posts[i].status = "pending" /\ posts[i].created_at < now - RetentionMinutes
  /\ \E i \in DOMAIN posts :
       Terminal(posts[i]) /\ posts[i].created_at >= now - RetentionMinutes

\* C10: every stored post's retry count is between 0 and 3.
C10_RetryCountBounded ==
  \A i \in DOMAIN posts :
     posts[i].retry_count >= 0 /\ posts[i].retry_count <= MaxRetries

\* C11: for every stored post, the published time is set if and only if the
\* status is posted.
C11_PublishedIffPosted ==
  \A i \in DOMAIN posts :
     (posts[i].published_at # <<>>) <=> (posts[i].status = "posted")

\* C12: no step changes the status of a stored post that is posted or failed
\* (a published signal for a failed post, or a failed signal for a posted
\* post, leaves the status as it is).
C12_TerminalStatusFinal ==
  [][\A i \in DOMAIN posts :
       (Terminal(posts[i]) /\ i \in DOMAIN posts') =>
          posts'[i].status = posts[i].status]_vars

NotPending(p, id) == id \notin DOMAIN p \/ p[id].status # "pending"

\* C16: no step (a tick or the firing of a retry timer) starts a twitter call
\* for a post that is deleted or no longer pending in the store at that
\* moment.
C16_AttemptRereadsStore ==
  [][\A i \in DOMAIN calls :
       NotPending(posts, i) => Invocations(i)' = Invocations(i)]_vars

\* C17: a failing twitter call for a stored pending post with retry count
\* below 3 leaves the status pending, increases the stored retry count by
\* exactly one and arms exactly one retry timer.
C17_FailureCountsAndRearms ==
  [][\A i \in DOMAIN posts :
       (/\ calls'[i] = Append(calls[i], "fail")
        /\ posts[i].status = "pending"
        /\ posts[i].retry_count < MaxRetries) =>
          /\ i \in DOMAIN posts'
          /\ posts'[i].status = "pending"
          /\ posts'[i].retry_count = posts[i].retry_count + 1
          /\ Armed(i, timers') = Armed(i, timers) + 1]_vars

Failed(id) ==
  Len(SelectSeq(post_analytics[id], LAMBDA e : e.event_type = "failed"))

\* C18: the failed signal is handled at most once per post (one failed event),
\* and the step that handles it sets the status to failed, records an error
\* message and increments the retry count by exactly one; so no step other
\* than the first failed signal of a post increments its retry count.
C18_FailedOnce ==
  [][\A i \in DOMAIN calls :
       /\ Failed(i)' <= 1
       /\ (Failed(i)' > Failed(i) /\ i \in DOMAIN posts) =>
             /\ posts'[i].status = "failed"
             /\ posts'[i].error_message # NULL
             /\ posts'[i].retry_count = posts[i].retry_count + 1
       /\ (i \in DOMAIN posts /\ i \in DOMAIN posts'
           /\ posts'[i].retry_count # posts[i].retry_count) =>
             (Failed(i) = 0 /\ Failed(i)' = 1)]_vars

\* C14: schedulePost with empty content or with a platform outside the known
\* set creates no post: every stored post has non-empty content and a known
\* platform.
C14_ScheduleValidates ==
  \A i \in DOMAIN posts :
     posts[i].content # "" /\ posts[i].platform \in Platforms

\* C15: the get-by-id route answers success exactly when the post is in the
\* store, and the delete route answers success exactly when a pending post
\* of that id was deleted; otherwise they answer not-found.
C15_RoutesNotFound ==
  [][/\ ret'.op = "GET /api/posts/:id" =>
          (ret'.ok <=> ret'.id \in DOMAIN posts)
     /\ ret'.op = "DELETE /api/posts/:id" =>
          (ret'.ok <=> (ret'.id \in DOMAIN posts
                        /\ posts[ret'.id].status = "pending"))]_vars

\* C13: one tick after a stored post was scheduled for its creation time or
\* earlier, the tick has picked it up (one twitter call started for a twitter
\* post); if the adapter succeeded (or the platform has none) the post is
\* posted and its events are exactly scheduled, published.
C13_DuePostedByNextTick ==
  \A i \in DOMAIN posts :
     (posts[i].scheduled_for <= posts[i].created_at /\ now = posts[i].created_at + 1) =>
        /\ posts[i].platform = "twitter" => Invocations(i) = 1
        /\ (posts[i].platform # "twitter" \/ calls[i] = <<"ok">>) =>
              /\ posts[i].status = "posted"
              /\ post_analytics[i] = <<Event("scheduled", 0), Event("published", 0)>>

\* One tick after scheduling, a twitter post whose call succeeded is posted.
C13_Witness ==
  \E i \in DOMAIN posts :
     /\ posts[i].scheduled_for <= posts[i].created_at
     /\ now = posts[i].created_at + 1
     /\ posts[i].platform = "twitter"
     /\ calls[i] = <<"ok">>
     /\ posts[i].status = "posted"

Retries(id) ==
  Len(SelectSeq(post_analytics[id], LAMBDA e : e.event_type = "retry"))

\* C19: a step appends at most one retry event for a post; the step that
\* handles a retrying signal (it arms the retry timer) appends exactly one,
\* carrying the stored retry count plus one, and leaves the post's stored
\* status, published time and error message as they are.
C19_RetryingOnlyLogs ==
  [][\A i \in DOMAIN calls :
       /\ Armed(i, timers') > Armed(i, timers) => Retries(i)' = Retries(i) + 1
       /\ Retries(i)' # Retries(i) =>
             /\ i \in DOMAIN posts /\ i \in DOMAIN posts'
             /\ post_analytics'[i] =
                  Append(post_analytics[i], Event("retry", posts[i].retry_count + 1))
             /\ posts'[i].status = posts[i].status
             /\ posts'[i].published_at = posts[i].published_at
             /\ posts'[i].error_message = posts[i].error_message]_vars

\* A retry event carrying the attempt number was appended for a pending post
\* and the retry timer is armed.
C19_Witness ==
  \E i \in DOMAIN posts :
     /\ Retries(i) = 1
     /\ Armed(i, timers) = 1
     /\ post_analytics[i][Len(post_analytics[i])] = Event("retry", posts[i].retry_count + 1)
     /\ posts[i].status = "pending"

HasOk(c) == \E k \in 1 .. Len(c) : c[k] = "ok"

\* C20: when the INSERT of an event fails in the listeners of a settling call
\* (and the UPDATE does not), the status update of the same signal is applied
\* and the flow goes on (posted; or failed; or the retry timer armed); when
\* the UPDATE after a successful call fails, the published event is still
\* inserted, the post stays as it was, and a post that is still pending after
\* a successful call is returned as due by every later tick.
C20_ListenerFaultsContained ==
  [][\A i \in DOMAIN calls :
       LET ok     == calls'[i] = Append(calls[i], "ok")
           fail   == calls'[i] = Append(calls[i], "fail")
           stored == i \in DOMAIN posts
       IN /\ ((ok \/ fail) /\ AnalyticsError \in caught') =>
                post_analytics'[i] = post_analytics[i]
          /\ (ok /\ stored /\ UpdateError \notin caught') =>
                (posts'[i].status = "posted" /\ posts'[i].published_at # <<>>)
          /\ (fail /\ UpdateError \notin caught') =>
                \/ posts' = posts /\ Armed(i, timers') = Armed(i, timers) + 1
                \/ /\ timers' = timers
                   /\ stored => /\ posts'[i].status = "failed"
                                /\ posts'[i].retry_count = posts[i].retry_count + 1
          /\ (ok /\ UpdateError \in caught') =>
                /\ posts' = posts
                /\ AnalyticsError \notin caught' =>
                      post_analytics'[i] = Append(post_analytics[i], Event("published", 0))
          /\ (now' # now /\ stored /\ posts[i].status = "pending" /\ HasOk(calls[i])) =>
                \E k \in 1 .. Len(due') : due'[k] = i]_vars

\* A later tick returned a post as due whose twitter call had succeeded and
\* whose status update had failed.
C20_Witness ==
  \E i \in DOMAIN posts :
     /\ HasOk(calls[i])
     /\ posts[i].status = "pending"
     /\ \E k \in 1 .. Len(due) : due[k] = i
     /\ Published(i) >= 1

\* C21: for a stored post on a platform without adapter (linkedin, instagram)
\* no twitter call is ever started, no retry timer armed and no retry or
\* failed event recorded; the tick that returns it as due emits
\* post:published: the post is posted and one published event is appended.
C21_NoAdapterSucceeds ==
  [][\A i \in DOMAIN posts' :
       posts'[i].platform # "twitter" =>
          /\ Invocations(i)' = 0
          /\ Armed(i, timers') = 0
          /\ Retries(i)' = 0
          /\ Failed(i)' = 0
          /\ (\E k \in 1 .. Len(due') : due'[k] = i) =>
                /\ posts'[i].status = "posted"
                /\ posts'[i].published_at = <<now'>>
                /\ post_analytics'[i] =
                     Append(post_analytics[i], Event("published", 0))]_vars

\* A tick returned a linkedin or instagram post as due and it is posted.
C21_Witness ==
  \E i \in DOMAIN posts :
     /\ posts[i].platform \in {"linkedin", "instagram"}
     /\ \E k \in 1 .. Len(due) : due[k] = i
     /\ posts[i].status = "posted"
     /\ Published(i) = 1

\* C22: every stored pending post has retry count 0; a step changes the
\* retry count of a post only together with setting its status to failed;
\* and every retry event appended for a post carries attempt number 1.
C22_PendingNeverRetried ==
  [][/\ \A i \in DOMAIN posts' :
          posts'[i].status = "pending" => posts'[i].retry_count = 0
     /\ \A i \in DOMAIN posts \cap DOMAIN posts' :
          posts'[i].retry_count # posts[i].retry_count =>
             posts'[i].status = "failed"
     /\ \A i \in DOMAIN calls :
          Retries(i)' # Retries(i) =>
             post_analytics'[i] = Append(post_analytics[i], Event("retry", 1))]_vars

Scheduled(id) ==
  Len(SelectSeq(post_analytics[id], LAMBDA e : e.event_type = "scheduled"))

\* C23: a schedulePost call that returns an error (the INSERT failed or the
\* store is not initialised) leaves both tables and the id counter as they
\* are; a step appends a scheduled event only if it is a schedulePost call
\* that succeeded, for the post it has just inserted, and appends one only.
C23_ScheduledAfterInsert ==
  [][/\ (ret'.op = "schedulePost" /\ ~ret'.ok) =>
          /\ posts' = posts
          /\ post_analytics' = post_analytics
          /\ nextId' = nextId
     /\ \A i \in DOMAIN calls :
          Scheduled(i)' # Scheduled(i) =>
             /\ ret'.op = "schedulePost" /\ ret'.ok /\ ret'.id = i
             /\ i \notin DOMAIN posts /\ i \in DOMAIN posts'
             /\ post_analytics'[i] = Append(post_analytics[i], Event("scheduled", 0))]_vars

\* With the store initialised, a schedulePost call failed on its INSERT:
\* nothing is stored and no event is recorded.
C23_Witness ==
  /\ db
  /\ ret.op = "schedulePost"
  /\ ~ret.ok
  /\ posts = <<>>
  /\ \A i \in DOMAIN post_analytics : post_analytics[i] = <<>>

====
